---------------------------- MODULE Spec2Model ----------------------------
(***************************************************************************)
(* Model of app.py, the Flask backend for Gemini text-to-speech:           *)
(*   - parse_audio_mime_type and convert_to_wav (pure helpers),            *)
(*   - get_client (primary credential, backup credential on failure),      *)
(*   - the generate_speech request handler.                                *)
(*                                                                         *)
(* Strings whose characters the code inspects (MIME types, exception       *)
(* messages, the spoken text) are sequences of one-character strings, so   *)
(* that split / strip / lower / startswith / "in" / int() are computed the *)
(* way Python computes them.  Byte strings are sequences of 0..255.        *)
(* The local file system is taken to be reliable (open/write/remove do not *)
(* raise); every interaction with the remote service may raise.            *)
(***************************************************************************)
EXTENDS Integers, Sequences, FiniteSets, TLC

(***************************************************************************)
(* Bounds of the model.                                                    *)
(***************************************************************************)
MaxSegs == 2
MaxData == 1
MaxChunks == 2
MaxWords == 16

(***************************************************************************)
(* Program constants.                                                      *)
(***************************************************************************)
DefaultBits == 16
DefaultRate == 24000
NumChannels == 1
FmtChunkSize == 16
PcmFormat == 1
RiffOverhead == 36
WordLimit == 15

None == "None"

(***************************************************************************)
(* Python str operations on character sequences.                           *)
(***************************************************************************)
Uppers == <<"A","B","C","D","E","F","G","H","I","J","K","L","M",
            "N","O","P","Q","R","S","T","U","V","W","X","Y","Z">>
Lowers == <<"a","b","c","d","e","f","g","h","i","j","k","l","m",
            "n","o","p","q","r","s","t","u","v","w","x","y","z">>
Digits == <<"0","1","2","3","4","5","6","7","8","9">>
Whitespace == {" "}

IndexIn(c, seq) ==
    IF \E i \in 1..Len(seq) : seq[i] = c
    THEN CHOOSE i \in 1..Len(seq) : seq[i] = c /\ \A j \in 1..(i-1) : seq[j] # c
    ELSE 0

LowerChar(c) == IF IndexIn(c, Uppers) > 0 THEN Lowers[IndexIn(c, Uppers)] ELSE c

\* str.lower()
Lower(s) == [i \in 1..Len(s) |-> LowerChar(s[i])]

\* str.startswith(p)
StartsWith(s, p) == Len(s) >= Len(p) /\ SubSeq(s, 1, Len(p)) = p

\* p in s
Contains(s, p) ==
    \E i \in 1..(Len(s) - Len(p) + 1) : SubSeq(s, i, i + Len(p) - 1) = p

\* str.strip()
Strip(s) ==
    IF \A i \in 1..Len(s) : s[i] \in Whitespace THEN <<>>
    ELSE LET lo == CHOOSE i \in 1..Len(s) :
                       s[i] \notin Whitespace /\ \A j \in 1..(i-1) : s[j] \in Whitespace
             hi == CHOOSE i \in 1..Len(s) :
                       s[i] \notin Whitespace /\ \A j \in (i+1)..Len(s) : s[j] \in Whitespace
         IN  SubSeq(s, lo, hi)

\* s.split(sep): the list of segments between occurrences of the character sep
RECURSIVE Split(_, _)
Split(s, sep) ==
    LET k == IndexIn(sep, s)
    IN  IF k = 0 THEN <<s>>
        ELSE <<SubSeq(s, 1, k - 1)>> \o Split(SubSeq(s, k + 1, Len(s)), sep)

\* s.split(sep, 1)[1], for s that holds sep
AfterFirst(s, sep) == SubSeq(s, IndexIn(sep, s) + 1, Len(s))

\* sep.join(segs)
RECURSIVE Join(_, _)
Join(segs, sep) ==
    IF Len(segs) = 0 THEN <<>>
    ELSE IF Len(segs) = 1 THEN segs[1]
    ELSE segs[1] \o <<sep>> \o Join(Tail(segs), sep)

RECURSIVE DigitsValue(_)
DigitsValue(ds) ==
    IF Len(ds) = 0 THEN 0
    ELSE IF ds[Len(ds)] = "_" THEN DigitsValue(SubSeq(ds, 1, Len(ds) - 1))
    ELSE 10 * DigitsValue(SubSeq(ds, 1, Len(ds) - 1)) + (IndexIn(ds[Len(ds)], Digits) - 1)

\* int(s): surrounding whitespace, one optional sign, decimal digits with
\* single underscores between digits; anything else is a ValueError.
ParseInt(s) ==
    LET t    == Strip(s)
        sgn  == Len(t) > 0 /\ t[1] \in {"+", "-"}
        body == IF sgn THEN Tail(t) ELSE t
        wellFormed ==
            /\ Len(body) > 0
            /\ \A i \in 1..Len(body) : IndexIn(body[i], Digits) > 0 \/ body[i] = "_"
            /\ body[1] # "_" /\ body[Len(body)] # "_"
            /\ \A i \in 1..(Len(body) - 1) : ~(body[i] = "_" /\ body[i+1] = "_")
    IN  IF wellFormed
        THEN [ok |-> TRUE,
              val |-> IF sgn /\ t[1] = "-" THEN 0 - DigitsValue(body) ELSE DigitsValue(body)]
        ELSE [ok |-> FALSE, val |-> 0]

(***************************************************************************)
(* String literals of the program and of the inputs the model draws.       *)
(***************************************************************************)
S_rate_eq == <<"r","a","t","e","=">>
S_audio_L == <<"a","u","d","i","o","/","L">>
S_RESOURCE_EXHAUSTED == <<"R","E","S","O","U","R","C","E","_","E","X","H","A","U","S","T","E","D">>
S_quota == <<"q","u","o","t","a">>
S_wav == <<"w","a","v">>

Seg_audio_L16 == <<"a","u","d","i","o","/","L","1","6">>
Seg_audio_L24 == <<"a","u","d","i","o","/","L","2","4">>
Seg_audio_l24 == <<"a","u","d","i","o","/","l","2","4">>
Seg_audio_L12 == <<"a","u","d","i","o","/","L","1","2">>
Seg_audio_L70000 == <<"a","u","d","i","o","/","L","7","0","0","0","0">>
Seg_audio_ogg == <<"a","u","d","i","o","/","o","g","g">>
Seg_audio_wav == <<"a","u","d","i","o","/","w","a","v">>
Seg_audio_X_WAV == <<"a","u","d","i","o","/","X","-","W","A","V">>
Seg_rate_24000 == <<"r","a","t","e","=","2","4","0","0","0">>
Seg_rate_48000 == <<"r","a","t","e","=","4","8","0","0","0">>
Seg_rate_invalid == <<"r","a","t","e","=","i","n","v","a","l","i","d">>
Seg_Rate_8000 == <<" ","R","a","t","e","=","8","0","0","0"," ">>
Seg_rate_neg == <<"r","a","t","e","=","-","1">>
Seg_codec == <<"c","o","d","e","c","=","p","c","m">>

Msg_resource_exhausted == <<"4","2","9"," ","R","E","S","O","U","R","C","E","_","E","X","H","A","U","S","T","E","D">>
Msg_quota == <<"Q","u","o","t","a"," ","e","x","c","e","e","d","e","d">>
Msg_timeout == <<"t","i","m","e","d"," ","o","u","t">>
Msg_attribute == <<"n","o"," ","a","t","t","r","i","b","u","t","e"," ","'","g","e","t","'">>

\* the MIME parameters a MIME-type string of the model is made of
Segments ==
    { Seg_audio_L16, Seg_audio_L24, Seg_audio_l24, Seg_audio_L12, Seg_audio_L70000,
      Seg_audio_ogg, Seg_audio_wav, Seg_audio_X_WAV, Seg_rate_24000, Seg_rate_48000,
      Seg_rate_invalid, Seg_Rate_8000, Seg_rate_neg, Seg_codec }

SeqsUpTo(S, n) == UNION { [1..k -> S] : k \in 0..n }

\* every MIME-type string of at most MaxSegs parameters
MimeTypes == { Join(segs, ";") : segs \in SeqsUpTo(Segments, MaxSegs) }

\* the bytes a payload of the model is made of
DataBytes == {7, 200}
Payloads == SeqsUpTo(DataBytes, MaxData)


(***************************************************************************)
(* parse_audio_mime_type                                                   *)
(***************************************************************************)
\* the loop body: one ";"-separated parameter folded into the current pair
ParseParam(acc, raw) ==
    LET param == Strip(raw)
    IN  IF StartsWith(Lower(param), S_rate_eq)
        THEN LET r == ParseInt(AfterFirst(param, "="))
             IN  IF r.ok THEN [acc EXCEPT !.rate = r.val] ELSE acc
        ELSE IF Contains(param, S_audio_L)
        THEN LET b == ParseInt(AfterFirst(param, "L"))
             IN  IF b.ok THEN [acc EXCEPT !.bits_per_sample = b.val] ELSE acc
        ELSE acc

RECURSIVE FoldParams(_, _)
FoldParams(acc, parts) ==
    IF Len(parts) = 0 THEN acc
    ELSE FoldParams(ParseParam(acc, Head(parts)), Tail(parts))

parse_audio_mime_type(mime_type) ==
    FoldParams([bits_per_sample |-> DefaultBits, rate |-> DefaultRate],
               Split(mime_type, ";"))

(***************************************************************************)
(* convert_to_wav.  struct.pack raises struct.error when a value does not  *)
(* fit its unsigned field, and then nothing is returned.                   *)
(***************************************************************************)
Tag_RIFF == <<82, 73, 70, 70>>
Tag_WAVE == <<87, 65, 86, 69>>
Tag_fmt  == <<102, 109, 116, 32>>
Tag_data == <<100, 97, 116, 97>>

Pow256(k) == IF k = 0 THEN 1 ELSE IF k = 1 THEN 256 ELSE IF k = 2 THEN 65536 ELSE 16777216

\* "<H" / "<I": little-endian unsigned of width bytes
LE(n, width) == [i \in 1..width |-> (n \div Pow256(i - 1)) % 256]

\* the range struct.pack accepts for "H" (width 2) and "I" (width 4)
Fits(n, width) ==
    /\ n >= 0
    /\ IF width = 2 THEN n <= 65535 ELSE (n \div 65536) <= 65535

ChunkSizeOffByEight(data_size) == RiffOverhead + 8 + data_size

ChunkSize(data_size) == RiffOverhead + data_size

convert_to_wav(audio_data, mime_type) ==
    LET parameters       == parse_audio_mime_type(mime_type)
        bits_per_sample  == parameters.bits_per_sample
        sample_rate      == parameters.rate
        num_channels     == NumChannels
        data_size        == Len(audio_data)
        bytes_per_sample == bits_per_sample \div 8
        block_align      == num_channels * bytes_per_sample
        byte_rate        == sample_rate * block_align
        chunk_size       == ChunkSize(data_size)
        packable ==
            /\ Fits(chunk_size, 4) /\ Fits(FmtChunkSize, 4)
            /\ Fits(PcmFormat, 2) /\ Fits(num_channels, 2)
            /\ Fits(sample_rate, 4) /\ Fits(byte_rate, 4)
            /\ Fits(block_align, 2) /\ Fits(bits_per_sample, 2)
            /\ Fits(data_size, 4)
        header ==
            Tag_RIFF \o LE(chunk_size, 4) \o Tag_WAVE \o Tag_fmt
            \o LE(FmtChunkSize, 4) \o LE(PcmFormat, 2) \o LE(num_channels, 2)
            \o LE(sample_rate, 4) \o LE(byte_rate, 4)
            \o LE(block_align, 2) \o LE(bits_per_sample, 2)
            \o Tag_data \o LE(data_size, 4)
    IN  IF packable
        THEN [raised |-> FALSE, bytes |-> header \o audio_data]
        ELSE [raised |-> TRUE, bytes |-> <<>>]

(***************************************************************************)
(* State.                                                                  *)
(*   pc        position of the generate_speech handler                     *)
(*   request   the JSON body of the POST                                   *)
(*   disk      the speech_*.wav artifacts in the working directory         *)
(*   client    the credential of the session get_client returned           *)
(*   calls     the calls made on the genai library, in order               *)
(*   stream    the chunks the remote service will yield for this request   *)
(*   pos       how many chunks the for loop has taken from the stream      *)
(*   exc       the exception caught by the handler's except clause         *)
(*   response  the (body, status) pair the handler returned                *)
(*   saved     the save_binary_file calls of this request                  *)
(*   log       the diagnostics printed (without their text)                *)
(*   fpc, fmime, fdata, fparams, fwav                                      *)
(*             direct application of the two pure helpers to an input      *)
(***************************************************************************)
VARIABLES pc, request, disk, client, calls, stream, pos, exc, response, saved, log,
          fpc, fmime, fdata, fparams, fwav

hvars == <<pc, request, disk, client, calls, stream, pos, exc, response, saved, log>>
fvars == <<fpc, fmime, fdata, fparams, fwav>>
vars == <<pc, request, disk, client, calls, stream, pos, exc, response, saved, log,
          fpc, fmime, fdata, fparams, fwav>>

PRIMARY_API_KEY == "PRIMARY_API_KEY"
BACKUP_API_KEY == "BACKUP_API_KEY"

V_male == <<"m","a","l","e">>
V_Female == <<"F","e","m","a","l","e">>
V_female == <<"f","e","m","a","l","e">>
T_hi == <<"h","i">>

\* request bodies: not a JSON object at all, or an object with the three fields;
\* additionalInstructions is given by its number of whitespace-separated words
Texts == { <<>>, <<" ">>, <<" ">> \o T_hi \o <<" ">> }
Voices == { V_male, V_Female }
Requests ==
    { [json_ok |-> FALSE, text |-> <<>>, voice |-> V_male, words |-> 0] }
    \cup [json_ok : {TRUE}, text : Texts, voice : Voices, words : 0..MaxWords]

\* an artifact on disk: voice and timestamp make the name
OldFile == [voice |-> V_male, stamp |-> "old", data |-> <<7>>]
RecentFile == [voice |-> V_male, stamp |-> "recent", data |-> <<7>>]

\* response chunks of the remote service (a chunk carries at most one part)
Mime_L16_rate == Join(<<Seg_audio_L16, Seg_rate_24000>>, ";")
ChunkMimes == { Seg_audio_X_WAV, Mime_L16_rate }
ChunkPayloads == { <<7>>, <<200>> }
Chunk_NoCandidates == [candidates |-> <<>>]
Chunk_NoContent == [candidates |-> << [content |-> <<>>] >>]
Chunk_NoParts == [candidates |-> << [content |-> << [parts |-> <<>>] >>] >>]
ChunkOf(part) == [candidates |-> << [content |-> << [parts |-> <<part>>] >>] >>]
Part_Text == [text |-> "t", inline_data |-> <<>>]
Part_Inline(data, mime) ==
    [text |-> "", inline_data |-> << [data |-> data, mime_type |-> mime] >>]
Chunks ==
    { Chunk_NoCandidates, Chunk_NoContent, Chunk_NoParts, ChunkOf(Part_Text),
      ChunkOf(Part_Inline(<<>>, Mime_L16_rate)) }
    \cup { ChunkOf(Part_Inline(d, m)) : d \in ChunkPayloads, m \in ChunkMimes }
Streams == SeqsUpTo(Chunks, MaxChunks)

\* messages of the exceptions the genai library raises
ErrorMessages == { Msg_resource_exhausted, Msg_quota, Msg_timeout }

Call(op, key, arg) == [op |-> op, key |-> key, arg |-> arg]

(***************************************************************************)
(* The locals of generate_speech, as functions of the request.             *)
(***************************************************************************)
text_to_speak == Strip(request.text)
voice_choice == request.voice
\* the stripped additionalInstructions, as its list of words
additional_instructions == [i \in 1..request.words |-> "w"]

voice_name == IF Lower(voice_choice) = V_female THEN "Aoede" ELSE "Enceladus"
base_tone == IF Lower(voice_choice) = V_female THEN "tone_female" ELSE "tone_male"

TooManyWords(word_count) == word_count > WordLimit

\* tone_instruction after "Append user extra instruction"
tone_instruction ==
    IF Len(additional_instructions) > 0
    THEN <<base_tone>> \o additional_instructions
    ELSE <<base_tone>>

final_text == [tone |-> tone_instruction, text |-> text_to_speak]

(***************************************************************************)
(* The except clause of generate_speech.                                   *)
(***************************************************************************)
SignalsQuotaCaseSensitive(msg) ==
    Contains(msg, S_RESOURCE_EXHAUSTED) \/ Contains(msg, S_quota)

SignalsQuota(msg) ==
    Contains(msg, S_RESOURCE_EXHAUSTED) \/ Contains(Lower(msg), S_quota)

ErrorResponse(msg) ==
    IF SignalsQuota(msg)
    THEN [status |-> 429, kind |-> "quota_notice", detail |-> <<>>]
    ELSE [status |-> 500, kind |-> "exception", detail |-> msg]

\* an exception raised at src unwinds to the except clause, which answers
Raise(src, msg) ==
    /\ exc' = << [src |-> src, msg |-> msg] >>
    /\ response' = << ErrorResponse(msg) >>
    /\ pc' = "done"

(***************************************************************************)
(* generate_speech, lines 113-126: old-artifact cleanup, body parsing,     *)
(* empty-text check.                                                       *)
(***************************************************************************)
Begin ==
    /\ pc = "begin"
    /\ disk' = { f \in disk : f.stamp # "old" }
    /\ IF ~request.json_ok
       THEN /\ Raise("get_json", Msg_attribute)
       ELSE IF text_to_speak = <<>>
       THEN /\ response' = << [status |-> 400, kind |-> "empty_text", detail |-> <<>>] >>
            /\ pc' = "done"
            /\ exc' = exc
       ELSE /\ pc' = "get_client"
            /\ UNCHANGED <<exc, response>>
    /\ UNCHANGED <<request, client, calls, stream, pos, saved, log>>
    /\ UNCHANGED fvars

(***************************************************************************)
(* get_client                                                              *)
(***************************************************************************)
\* the primary session is built and models.list() succeeds
PrimaryOk ==
    /\ pc = "get_client"
    /\ calls' = calls \o << Call("Client", PRIMARY_API_KEY, <<>>),
                            Call("models.list", PRIMARY_API_KEY, <<>>) >>
    /\ client' = PRIMARY_API_KEY
    /\ pc' = "build"
    /\ UNCHANGED <<request, disk, stream, pos, exc, response, saved, log>>
    /\ UNCHANGED fvars

\* models.list() on the primary session raises: caught, printed
\* (an exception of the constructor on line 93 is caught by the same clause)
PrimaryFail(msg) ==
    /\ pc = "get_client"
    /\ calls' = calls \o << Call("Client", PRIMARY_API_KEY, <<>>),
                            Call("models.list", PRIMARY_API_KEY, <<>>) >>
    /\ log' = Append(log, "primary_failed")
    /\ pc' = "fallback"
    /\ UNCHANGED <<request, disk, client, stream, pos, exc, response, saved>>
    /\ UNCHANGED fvars

\* the except branch returns a session of the backup key
BackupOkWithCheck ==
    /\ pc = "fallback"
    /\ calls' = calls \o << Call("Client", BACKUP_API_KEY, <<>>),
                            Call("models.list", BACKUP_API_KEY, <<>>) >>
    /\ client' = BACKUP_API_KEY
    /\ pc' = "build"
    /\ UNCHANGED <<request, disk, stream, pos, exc, response, saved, log>>
    /\ UNCHANGED fvars

BackupOk ==
    /\ pc = "fallback"
    /\ calls' = Append(calls, Call("Client", BACKUP_API_KEY, <<>>))
    /\ client' = BACKUP_API_KEY
    /\ pc' = "build"
    /\ UNCHANGED <<request, disk, stream, pos, exc, response, saved, log>>
    /\ UNCHANGED fvars

\* building the backup session raises: the exception leaves get_client
BackupFail(msg) ==
    /\ pc = "fallback"
    /\ calls' = Append(calls, Call("Client", BACKUP_API_KEY, <<>>))
    /\ Raise("backup_client", msg)
    /\ UNCHANGED <<request, disk, client, stream, pos, saved, log>>
    /\ UNCHANGED fvars

(***************************************************************************)
(* generate_speech, lines 131-168: voice, extra-instruction bound, request *)
(***************************************************************************)
BuildRequest ==
    /\ pc = "build"
    /\ IF Len(additional_instructions) > 0 /\ TooManyWords(Len(additional_instructions))
       THEN /\ response' = << [status |-> 400, kind |-> "too_many_words", detail |-> <<>>] >>
            /\ pc' = "done"
       ELSE /\ pc' = "call"
            /\ UNCHANGED response
    /\ UNCHANGED <<request, disk, client, calls, stream, pos, exc, saved, log>>
    /\ UNCHANGED fvars

(***************************************************************************)
(* generate_speech, lines 170-193: the loop over the response stream       *)
(***************************************************************************)
\* generate_content_stream is called; the service will yield chunks
CallStream(chunks) ==
    /\ pc = "call"
    /\ calls' = Append(calls, Call("generate_content_stream", client,
                                   << [voice_name |-> voice_name, contents |-> final_text] >>))
    /\ stream' = chunks
    /\ pos' = 0
    /\ pc' = "iter"
    /\ UNCHANGED <<request, disk, client, exc, response, saved, log>>
    /\ UNCHANGED fvars

\* fetching the next chunk raises (the first fetch is where a refused call shows)
StreamRaise(msg) ==
    /\ pc = "iter"
    /\ Raise("generate_content_stream", msg)
    /\ UNCHANGED <<request, disk, client, calls, stream, pos, saved, log>>
    /\ UNCHANGED fvars

\* lines 175-180: the chunk has nothing to look at
NothingToRead(chunk) ==
    \/ chunk.candidates = <<>>
    \/ chunk.candidates[1].content = <<>>
    \/ chunk.candidates[1].content[1].parts = <<>>

\* line 183: part.inline_data and part.inline_data.data
HasAudioAnyInline(part) == part.inline_data # <<>>

HasAudio(part) == part.inline_data # <<>> /\ part.inline_data[1].data # <<>>

\* lines 184-190: the bytes written for the part
ArtifactBytes(part) == part.inline_data[1].data

\* one iteration of the for loop
NextChunkKeepsReading ==
    /\ pc = "iter"
    /\ pos < Len(stream)
    /\ pos' = pos + 1
    /\ LET chunk == stream[pos + 1]
       IN  IF ~NothingToRead(chunk) /\ HasAudio(chunk.candidates[1].content[1].parts[1])
           THEN LET part == chunk.candidates[1].content[1].parts[1]
                    file == [voice |-> voice_choice, stamp |-> "now",
                             data |-> ArtifactBytes(part)]
                IN  /\ disk' = { f \in disk : ~(f.voice = file.voice /\ f.stamp = file.stamp) }
                               \cup {file}
                    /\ saved' = Append(saved, file)
                    /\ log' = Append(log, "file_saved")
                    /\ UNCHANGED <<response, pc>>
           ELSE UNCHANGED <<disk, saved, log, response, pc>>
    /\ UNCHANGED <<request, client, calls, stream, exc>>
    /\ UNCHANGED fvars

NextChunk ==
    /\ pc = "iter"
    /\ pos < Len(stream)
    /\ pos' = pos + 1
    /\ LET chunk == stream[pos + 1]
       IN  IF NothingToRead(chunk)
           THEN UNCHANGED <<disk, saved, log, response, pc>>
           ELSE LET part == chunk.candidates[1].content[1].parts[1]
                IN  IF HasAudio(part)
                    THEN LET file == [voice |-> voice_choice, stamp |-> "now",
                                      data |-> ArtifactBytes(part)]
                         IN  /\ disk' = { f \in disk :
                                            ~(f.voice = file.voice /\ f.stamp = file.stamp) }
                                        \cup {file}
                             /\ saved' = Append(saved, file)
                             /\ log' = Append(log, "file_saved")
                             /\ response' = << [status |-> 200, kind |-> "attachment",
                                                detail |-> file.data] >>
                             /\ pc' = "done"
                    ELSE UNCHANGED <<disk, saved, log, response, pc>>
    /\ UNCHANGED <<request, client, calls, stream, exc>>
    /\ UNCHANGED fvars

NoAudioResponse ==
    [status |-> 500, kind |-> "no_audio", detail |-> <<>>]

\* line 193: the stream ended and no chunk returned from the loop
StreamEnd ==
    /\ pc = "iter"
    /\ pos = Len(stream)
    /\ response' = << NoAudioResponse >>
    /\ pc' = "done"
    /\ UNCHANGED <<request, disk, client, calls, stream, pos, exc, saved, log>>
    /\ UNCHANGED fvars

(***************************************************************************)
(* Direct application of the pure helpers.                                 *)
(***************************************************************************)
ApplyParse ==
    /\ fpc = "input"
    /\ fparams' = << parse_audio_mime_type(fmime) >>
    /\ fpc' = "parsed"
    /\ UNCHANGED <<fmime, fdata, fwav>>
    /\ UNCHANGED hvars

ApplyConvert ==
    /\ fpc = "input"
    /\ fwav' = << convert_to_wav(fdata, fmime) >>
    /\ fpc' = "converted"
    /\ UNCHANGED <<fmime, fdata, fparams>>
    /\ UNCHANGED hvars

(***************************************************************************)
(* Specifications.                                                         *)
(***************************************************************************)
HandlerIdle ==
    /\ disk = {OldFile, RecentFile}
    /\ client = None
    /\ calls = <<>>
    /\ stream = <<>>
    /\ pos = 0
    /\ exc = <<>>
    /\ response = <<>>
    /\ saved = <<>>
    /\ log = <<>>

\* one POST /generate_speech
Init ==
    /\ pc = "begin"
    /\ request \in Requests
    /\ HandlerIdle
    /\ fpc = "off" /\ fmime = <<>> /\ fdata = <<>> /\ fparams = <<>> /\ fwav = <<>>

Next ==
    \/ Begin
    \/ PrimaryOk
    \/ \E msg \in ErrorMessages : PrimaryFail(msg)
    \/ BackupOk
    \/ \E msg \in ErrorMessages : BackupFail(msg)
    \/ BuildRequest
    \/ \E chunks \in Streams : CallStream(chunks)
    \/ \E msg \in ErrorMessages : StreamRaise(msg)
    \/ NextChunk
    \/ StreamEnd

Spec == Init /\ [][Next]_vars

\* the helpers applied to every MIME type and payload of the model
PureInit ==
    /\ pc = "off"
    /\ request = [json_ok |-> FALSE, text |-> <<>>, voice |-> V_male, words |-> 0]
    /\ HandlerIdle
    /\ fpc = "input"
    /\ fmime \in MimeTypes
    /\ fdata \in Payloads
    /\ fparams = <<>>
    /\ fwav = <<>>

PureNext == ApplyParse \/ ApplyConvert

PureSpec == PureInit /\ [][PureNext]_vars

(***************************************************************************)
(* Vocabulary of the properties.                                           *)
(***************************************************************************)
Done == pc = "done"
Answer == response[1]
Range(seq) == { seq[i] : i \in 1..Len(seq) }

\* the chunk carries an inline audio payload, and the payload it carries
CarriesAudio(chunk) ==
    /\ Len(chunk.candidates) > 0
    /\ Len(chunk.candidates[1].content) > 0
    /\ Len(chunk.candidates[1].content[1].parts) > 0
    /\ Len(chunk.candidates[1].content[1].parts[1].inline_data) > 0
    /\ Len(chunk.candidates[1].content[1].parts[1].inline_data[1].data) > 0
PayloadOf(chunk) == chunk.candidates[1].content[1].parts[1].inline_data[1].data
MimeOf(chunk) == chunk.candidates[1].content[1].parts[1].inline_data[1].mime_type

AudioIndexes == { i \in 1..Len(stream) : CarriesAudio(stream[i]) }
FirstAudio == CHOOSE i \in AudioIndexes : \A j \in AudioIndexes : i <= j

SynthesisCalls == { i \in 1..Len(calls) : calls[i].op = "generate_content_stream" }
CallsOn(key) == { i \in 1..Len(calls) : calls[i].key = key }
PrimaryFailed == \E i \in 1..Len(log) : log[i] = "primary_failed"
PastGetClient == pc \in {"build", "call", "iter"} \/ (Done /\ Len(calls) > 0)

\* little-endian unsigned integer of width bytes at a 0-based offset
ReadLE(bytes, offset, width) ==
    LET b(i) == bytes[offset + 1 + i]
    IN  IF width = 2 THEN b(0) + 256 * b(1)
        ELSE b(0) + 256 * b(1) + 65536 * b(2) + 16777216 * b(3)
Slice(bytes, from, to) == SubSeq(bytes, from + 1, to)

\* the layout the canonical header is to have for payload P, bits and rate
WavLayout(bytes, P, bits, rate) ==
    /\ Len(bytes) = 44 + Len(P)
    /\ Slice(bytes, 0, 4) = <<82, 73, 70, 70>>
    /\ ReadLE(bytes, 4, 4) = 36 + Len(P)
    /\ Slice(bytes, 8, 12) = <<87, 65, 86, 69>>
    /\ Slice(bytes, 12, 16) = <<102, 109, 116, 32>>
    /\ ReadLE(bytes, 16, 4) = 16
    /\ ReadLE(bytes, 20, 2) = 1
    /\ ReadLE(bytes, 22, 2) = 1
    /\ ReadLE(bytes, 24, 4) = rate
    /\ ReadLE(bytes, 28, 4) = rate * (bits \div 8)
    /\ ReadLE(bytes, 32, 2) = bits \div 8
    /\ ReadLE(bytes, 34, 2) = bits
    /\ Slice(bytes, 36, 40) = <<100, 97, 116, 97>>
    /\ ReadLE(bytes, 40, 4) = Len(P)
    /\ Slice(bytes, 44, Len(bytes)) = P

(***************************************************************************)
(* C1: the bytes returned and persisted for the first audio-bearing chunk  *)
(* (payload P, MIME type M) are P itself when M contains "wav" in any      *)
(* case, and otherwise a 44-byte RIFF/WAVE header followed by P, of length *)
(* 44 + len(P).  The handler writes P as it is for every M.                *)
(***************************************************************************)
C1_NormalizedArtifact ==
    (Done /\ Answer.status = 200) =>
        LET P == PayloadOf(stream[FirstAudio])
            M == MimeOf(stream[FirstAudio])
            out == saved[1].data
        IN  /\ Answer.detail = out
            /\ IF Contains(Lower(M), S_wav)
               THEN out = P
               ELSE /\ Len(out) = 44 + Len(P)
                    /\ Slice(out, 0, 4) = <<82, 73, 70, 70>>
                    /\ Slice(out, 8, 12) = <<87, 65, 86, 69>>
                    /\ Slice(out, 44, Len(out)) = P

(***************************************************************************)
(* C2: get_client.  When the primary liveness check raises, the session    *)
(* returned is built from the backup key, no liveness check is made on it  *)
(* and the primary's error is not raised; when building the backup session *)
(* raises as well, that error reaches the handler.  When the primary check *)
(* succeeds the primary session is returned and the backup key is unused.  *)
(***************************************************************************)
C2_CredentialResolution ==
    /\ \A i \in CallsOn(BACKUP_API_KEY) : calls[i].op # "models.list"
    /\ (PrimaryFailed /\ pc # "fallback") =>
          \/ /\ client = BACKUP_API_KEY
             /\ \A e \in Range(exc) : e.src = "generate_content_stream"
          \/ /\ client = None
             /\ Done
             /\ Len(exc) = 1 /\ exc[1].src = "backup_client"
             /\ calls[Len(calls)] = Call("Client", BACKUP_API_KEY, <<>>)
             /\ Answer = ErrorResponse(exc[1].msg)
    /\ (PastGetClient /\ ~PrimaryFailed) =>
          /\ client = PRIMARY_API_KEY
          /\ CallsOn(BACKUP_API_KEY) = {}
    /\ client = PRIMARY_API_KEY => ~PrimaryFailed

C2_Witness ==
    /\ pc = "iter"
    /\ PrimaryFailed
    /\ client = BACKUP_API_KEY
    /\ \E i \in SynthesisCalls : calls[i].key = BACKUP_API_KEY

(***************************************************************************)
(* C3: when a synthesis call made over the primary session fails with a    *)
(* quota / resource-exhaustion signal, the synthesis is issued once more   *)
(* over a backup-key session before any error is answered.  The handler    *)
(* answers 429 at once.                                                    *)
(***************************************************************************)
C3_OneSubstitutionAttempt ==
    ( /\ Done
      /\ Len(exc) = 1
      /\ exc[1].src = "generate_content_stream"
      /\ exc[1].msg \in {Msg_resource_exhausted, Msg_quota}
      /\ \E i \in SynthesisCalls : calls[i].key = PRIMARY_API_KEY )
    => Cardinality({ i \in SynthesisCalls : calls[i].key = BACKUP_API_KEY }) = 1

(***************************************************************************)
(* C4: the artifact is built from the first chunk that carries an inline   *)
(* audio payload and from nothing else: no chunk after it is taken from    *)
(* the stream, exactly one file is written, it holds that payload, and no  *)
(* byte that only a later audio chunk has is in it.                        *)
(***************************************************************************)
C4_FirstAudioChunkOnly ==
    /\ Len(saved) <= 1
    /\ \A i \in 1..(pos - 1) : ~CarriesAudio(stream[i])
    /\ (pos > 0 /\ CarriesAudio(stream[pos])) =>
          /\ Done
          /\ pos = FirstAudio
          /\ Len(saved) = 1
          /\ saved[1].data = PayloadOf(stream[pos])
          /\ saved[1] \in disk
          /\ Answer = [status |-> 200, kind |-> "attachment",
                       detail |-> PayloadOf(stream[pos])]
          /\ \A j \in AudioIndexes :
                j > pos => \A b \in Range(PayloadOf(stream[j])) :
                               b \notin Range(PayloadOf(stream[pos]))
                                   => b \notin Range(saved[1].data)
    /\ Len(saved) = 1 => (pos > 0 /\ CarriesAudio(stream[pos]))

C4_Witness ==
    /\ Done
    /\ Len(saved) = 1
    /\ pos < Len(stream)
    /\ \E j \in AudioIndexes : j > pos /\ PayloadOf(stream[j]) # PayloadOf(stream[pos])

(***************************************************************************)
(* C5: a stream that ends with no chunk carrying an inline audio payload   *)
(* (empty, or only chunks without candidates, content, parts, or with text *)
(* or an empty payload): every chunk is skipped without an error of the    *)
(* handler, no file is written, and the answer is 500 "No audio            *)
(* generated".                                                             *)
(***************************************************************************)
C5_NoAudioProduced ==
    ((pc = "iter" \/ (Done /\ SynthesisCalls # {})) /\ AudioIndexes = {}) =>
        /\ saved = <<>>
        /\ disk = {RecentFile}
        /\ (pc = "iter" /\ pos < Len(stream)) => ENABLED NextChunk
        /\ \A e \in Range(exc) : e.src = "generate_content_stream"
        /\ (Done /\ exc = <<>>) =>
              /\ pos = Len(stream)
              /\ Answer = [status |-> 500, kind |-> "no_audio", detail |-> <<>>]

C5_Witness ==
    /\ Done
    /\ exc = <<>>
    /\ AudioIndexes = {}
    /\ Len(stream) = 2
    /\ stream[1] = ChunkOf(Part_Text)
    /\ stream[2] = ChunkOf(Part_Inline(<<>>, Mime_L16_rate))
    /\ Answer.kind = "no_audio"

(***************************************************************************)
(* C6: for every payload P of length N and parsed parameters (bits, rate), *)
(* convert_to_wav returns 44 + N bytes with the canonical little-endian    *)
(* header fields, followed by P.  As stated, for every parsed pair: it     *)
(* fails where a value does not fit its unsigned field, since struct.pack  *)
(* raises there.                                                           *)
(***************************************************************************)
C6_HeaderForEveryInput ==
    fpc = "converted" =>
        LET p == parse_audio_mime_type(fmime)
        IN  /\ ~fwav[1].raised
            /\ WavLayout(fwav[1].bytes, fdata, p.bits_per_sample, p.rate)

\* every header value is in the range of its unsigned field
Representable(N, bits, rate) ==
    /\ 0 <= bits /\ bits <= 65535
    /\ 0 <= rate /\ (rate \div 65536) <= 65535
    /\ ((rate * (bits \div 8)) \div 65536) <= 65535
    /\ ((36 + N) \div 65536) <= 65535

(***************************************************************************)
(* C6 as amended: when bits fits 16 bits and rate, rate*(bits div 8) and   *)
(* 36+N fit 32 bits (all non-negative), convert_to_wav returns 44 + N      *)
(* bytes with the canonical header fields (bits/8 rounded down), followed  *)
(* by P; otherwise it raises and returns nothing.                          *)
(***************************************************************************)
C6_HeaderWhenRepresentable ==
    fpc = "converted" =>
        LET p == parse_audio_mime_type(fmime)
        IN  IF Representable(Len(fdata), p.bits_per_sample, p.rate)
            THEN /\ ~fwav[1].raised
                 /\ WavLayout(fwav[1].bytes, fdata, p.bits_per_sample, p.rate)
            ELSE fwav[1].raised

C6_Witness ==
    /\ fpc = "converted"
    /\ fmime = Join(<<Seg_rate_48000, Seg_audio_L24>>, ";")
    /\ Len(fdata) > 0
    /\ ~fwav[1].raised
    /\ ReadLE(fwav[1].bytes, 28, 4) = 144000

(***************************************************************************)
(* C7: parse_audio_mime_type returns a (bits_per_sample, rate) pair for    *)
(* every string; "audio/ogg" and "rate=invalid" give (16, 24000);          *)
(* "rate=48000;audio/L24" gives (24, 48000); parameters are compared       *)
(* case-folded, so "audio/l24" gives 24 bits as well.  The bit-depth test  *)
(* of the code is case-sensitive.                                          *)
(***************************************************************************)
C7_ParserCaseFolded ==
    fpc = "parsed" =>
        LET p == fparams[1]
        IN  /\ p.bits_per_sample \in Int /\ p.rate \in Int
            /\ fmime = Seg_audio_ogg =>
                  p = [bits_per_sample |-> 16, rate |-> 24000]
            /\ fmime = Seg_rate_invalid =>
                  p = [bits_per_sample |-> 16, rate |-> 24000]
            /\ fmime = Join(<<Seg_rate_48000, Seg_audio_L24>>, ";") =>
                  p = [bits_per_sample |-> 24, rate |-> 48000]
            /\ fmime = Seg_audio_l24 => p.bits_per_sample = 24

(***************************************************************************)
(* C8: for a request with non-empty text, an extra instruction of at most  *)
(* 15 words is accepted and appended to the tone instruction; one of 16 or *)
(* more words is answered 400 and no synthesis request is issued for it.   *)
(* The bound is tested after get_client, whose exception answers first.    *)
(***************************************************************************)
C8_ExtraInstructionBound ==
    (Done /\ request.json_ok /\ Strip(request.text) # <<>>) =>
        /\ request.words >= 16 =>
              /\ Answer.status = 400
              /\ Answer.kind = "too_many_words"
              /\ SynthesisCalls = {}
        /\ request.words <= 15 =>
              /\ Answer.status # 400
              /\ \A i \in SynthesisCalls :
                    Len(calls[i].arg[1].contents.tone) = 1 + request.words

(***************************************************************************)
(* C9: every request ends in exactly one answer, and its status follows    *)
(* the category of the failure that ended it: a failed validation (empty   *)
(* text, over-long extra instruction) 400; an exception whose message      *)
(* signals quota or resource exhaustion 429; no audio produced or any      *)
(* other exception 500; no exception leaves the handler unanswered.        *)
(***************************************************************************)
C9_StatusFollowsCategory ==
    /\ Done <=> Len(response) = 1
    /\ Len(response) <= 1
    /\ Len(exc) = 1 => Done
    /\ Done =>
          /\ Answer.status \in {200, 400, 429, 500}
          /\ Answer.status = 400 <=> Answer.kind \in {"empty_text", "too_many_words"}
          /\ Answer.kind = "empty_text" <=> (request.json_ok /\ Strip(request.text) = <<>>)
          /\ Answer.kind = "too_many_words" =>
                (request.words > 15 /\ Strip(request.text) # <<>> /\ exc = <<>>)
          /\ (exc = <<>> /\ request.json_ok /\ request.words > 15) => Answer.status = 400
          /\ Len(exc) = 1 =>
                IF exc[1].msg \in {Msg_resource_exhausted, Msg_quota}
                THEN Answer.status = 429
                ELSE Answer.status = 500 /\ Answer.detail = exc[1].msg
          /\ Answer.status = 429 =>
                (Len(exc) = 1 /\ exc[1].msg \in {Msg_resource_exhausted, Msg_quota})
          /\ Answer.status = 500 => (Answer.kind = "no_audio" \/ Len(exc) = 1)
          /\ Answer.kind = "no_audio" => (Answer.status = 500 /\ exc = <<>> /\ saved = <<>>)
          /\ Answer.status = 200 => (exc = <<>> /\ Len(saved) = 1)

C9_Witness ==
    /\ Done
    /\ Len(exc) = 1
    /\ exc[1].src = "generate_content_stream"
    /\ exc[1].msg = Msg_quota
    /\ Answer.status = 429
    /\ pos > 0

(***************************************************************************)
(* C10: on every path that ends in a 400 answer nothing has been asked of  *)
(* the remote service (no primary liveness check, no backup session, no    *)
(* synthesis call) and no artifact has been written.  The over-long extra  *)
(* instruction is rejected after get_client has run.                       *)
(***************************************************************************)
C10_RejectedBeforeAnyCall ==
    (Done /\ Answer.status = 400) => (calls = <<>> /\ saved = <<>>)

=============================================================================
